---- MODULE Spec2Model ----
(***************************************************************************)
(* Validation schemas of the calculator API: app/schemas/calculation.py    *)
(* (CalculationBase, CalculationCreate, CalculationUpdate,                 *)
(* CalculationRead) and app/schemas/base.py (UserBase, PasswordMixin,      *)
(* UserCreate, UserRead, UserLogin).                                       *)
(*                                                                         *)
(* A request is one validation call: from "idle" a validator is applied to *)
(* a payload and leaves its outcome; Discard drops the outcome again (the  *)
(* structures are built per request and thrown away).  A validated Create  *)
(* structure may instead be stored and read back (ReadBack): created then  *)
(* holds the Create structure the Read payload was made from.              *)
(*                                                                         *)
(* Values of a payload are tagged records:                                 *)
(*   [k |-> "missing"]            the key is not in the payload            *)
(*   [k |-> "none"]               None / null                              *)
(*   [k |-> "bool", v |-> b]      True / False (an int instance in Python) *)
(*   [k |-> "int", v |-> n]       the integer n                            *)
(*   [k |-> "float", h |-> n]     the float n/2 (numerator in halves)      *)
(*   [k |-> "str", s |-> chars]   text, a sequence of one-character strings*)
(*   [k |-> "list"]               a list (an unhashable value)             *)
(*   [k |-> "uuid", hex |-> ds]   a UUID with the hex digits ds            *)
(*   [k |-> "datetime", t |-> n]  a datetime                               *)
(* Outcomes:                                                               *)
(*   [status |-> "valid", value |-> fields]                                *)
(*   [status |-> "invalid", errors |-> set of [loc, msg, args]]            *)
(*   [status |-> "TypeError"]     an exception that is not a validation    *)
(*                                error leaves the validator               *)
(***************************************************************************)
EXTENDS Integers, Sequences, FiniteSets

VARIABLES pc, schema, payload, outcome, created

vars == <<pc, schema, payload, outcome, created>>

(***************************************************************************)
(* Bounds                                                                  *)
(***************************************************************************)
\* letters of a type name whose case the input may flip: positions 1..CasePos
CasePos == 3

\* runs of equal characters in a name, username or password input
MaxRuns == 3

(***************************************************************************)
(* Values                                                                  *)
(***************************************************************************)
Missing == [k |-> "missing"]

PyNone == [k |-> "none"]

PyList == [k |-> "list"]

PyBool(b) == [k |-> "bool", v |-> b]

PyInt(n) == [k |-> "int", v |-> n]

PyFloat(n) == [k |-> "float", h |-> n]

PyStr(cs) == [k |-> "str", s |-> cs]

\* a uuid.UUID instance with the given 32 hex digits
PyUUID(hex) == [k |-> "uuid", hex |-> hex]

\* a datetime instance
PyDatetime(t) == [k |-> "datetime", t |-> t]

(***************************************************************************)
(* Text: str.lower and the ordering used by sorted()                       *)
(***************************************************************************)
LowerAlpha ==
  <<"a", "b", "c", "d", "e", "f", "g", "h", "i", "j", "k", "l", "m",
    "n", "o", "p", "q", "r", "s", "t", "u", "v", "w", "x", "y", "z">>

UpperAlpha ==
  <<"A", "B", "C", "D", "E", "F", "G", "H", "I", "J", "K", "L", "M",
    "N", "O", "P", "Q", "R", "S", "T", "U", "V", "W", "X", "Y", "Z">>

IsUpperChar(c) == \E i \in 1..26 : UpperAlpha[i] = c

IsLowerChar(c) == \E i \in 1..26 : LowerAlpha[i] = c

LowerChar(c) ==
  IF IsUpperChar(c) THEN LowerAlpha[CHOOSE i \in 1..26 : UpperAlpha[i] = c]
  ELSE c

UpperChar(c) ==
  IF IsLowerChar(c) THEN UpperAlpha[CHOOSE i \in 1..26 : LowerAlpha[i] = c]
  ELSE c

\* str.lower()
Lower(cs) == [i \in 1..Len(cs) |-> LowerChar(cs[i])]

\* code point order of the characters that occur in the type names
Ord(c) ==
  IF IsUpperChar(c) THEN 64 + (CHOOSE i \in 1..26 : UpperAlpha[i] = c)
  ELSE IF IsLowerChar(c) THEN 96 + (CHOOSE i \in 1..26 : LowerAlpha[i] = c)
  ELSE 0

RECURSIVE StrLess(_, _)
\* s < t for Python strings
StrLess(s, t) ==
  IF t = <<>> THEN FALSE
  ELSE IF s = <<>> THEN TRUE
  ELSE IF Ord(Head(s)) # Ord(Head(t)) THEN Ord(Head(s)) < Ord(Head(t))
  ELSE StrLess(Tail(s), Tail(t))

RECURSIVE Sorted(_)
\* sorted(S) for a set of strings
Sorted(S) ==
  IF S = {} THEN <<>>
  ELSE LET m == CHOOSE x \in S : \A y \in S \ {x} : StrLess(x, y)
       IN <<m>> \o Sorted(S \ {m})

(***************************************************************************)
(* CalculationType                                                         *)
(***************************************************************************)
ADDITION == <<"a", "d", "d", "i", "t", "i", "o", "n">>

SUBTRACTION == <<"s", "u", "b", "t", "r", "a", "c", "t", "i", "o", "n">>

MULTIPLICATION ==
  <<"m", "u", "l", "t", "i", "p", "l", "i", "c", "a", "t", "i", "o", "n">>

DIVISION == <<"d", "i", "v", "i", "s", "i", "o", "n">>

\* {e.value for e in CalculationType}
CalculationType == {ADDITION, SUBTRACTION, MULTIPLICATION, DIVISION}

(***************************************************************************)
(* Errors                                                                  *)
(***************************************************************************)
Err(loc, msg) == [loc |-> loc, msg |-> msg, args |-> <<>>]

ErrArgs(loc, msg, args) == [loc |-> loc, msg |-> msg, args |-> args]

\* outcome of one validator step: a value, a ValueError, or another exception
Ok(v) == [r |-> "ok", v |-> v]

ValueError(msg, args) == [r |-> "ValueError", msg |-> msg, args |-> args]

TypeError == [r |-> "TypeError"]

(***************************************************************************)
(* CalculationBase: field validators                                       *)
(***************************************************************************)
\* hashable values can be looked up in a set; a list cannot
Hashable(v) == v.k # "list"

\* validate_type without the lower-casing
validate_type_as_given(v0) ==
  LET allowed == CalculationType
  IN IF ~Hashable(v0) THEN TypeError
     ELSE IF ~(v0.k = "str" /\ v0.s \in allowed)
          THEN ValueError("Type must be one of", Sorted(allowed))
          ELSE Ok(v0)

\* CalculationBase.validate_type (mode="before")
validate_type(v0) ==
  LET v == IF v0.k = "str" THEN PyStr(Lower(v0.s)) ELSE v0
      allowed == CalculationType
  IN IF ~Hashable(v) THEN TypeError
     ELSE IF ~(v.k = "str" /\ v.s \in allowed)
          THEN ValueError("Type must be one of", Sorted(allowed))
          ELSE Ok(v)

\* isinstance(v, float)
IsFloatOnly(v) == v.k = "float"

\* isinstance(v, int)
IsIntOnly(v) == v.k \in {"int", "bool"}

\* isinstance(v, (float, int)); bool is a subclass of int
IsFloatOrInt(v) == v.k \in {"float", "int", "bool"}

\* CalculationBase.validate_operand_exists_and_float (mode="before")
validate_operand_exists_and_float(v) ==
  IF v.k = "none"
  THEN ValueError("Both operands 'a' and 'b' must be provided", <<>>)
  ELSE IF ~IsFloatOrInt(v)
       THEN ValueError("Input should be a valid float", <<>>)
       ELSE Ok(v)

(***************************************************************************)
(* Standard (lax) validation of the declared field types                   *)
(***************************************************************************)
Digits == <<"0", "1", "2", "3", "4", "5", "6", "7", "8", "9">>

IsDigitChar(c) == \E i \in 1..10 : Digits[i] = c

DigitVal(c) == (CHOOSE i \in 1..10 : Digits[i] = c) - 1

RECURSIVE DecimalVal(_)
\* value of a string of decimal digits
DecimalVal(cs) ==
  IF cs = <<>> THEN 0
  ELSE 10 * DecimalVal(SubSeq(cs, 1, Len(cs) - 1)) + DigitVal(cs[Len(cs)])

\* float field: floats as they are, ints and bools converted, text parsed
float_field(v) ==
  IF v.k = "float" THEN Ok(v)
  ELSE IF v.k = "int" THEN Ok(PyFloat(2 * v.v))
  ELSE IF v.k = "bool" THEN Ok(PyFloat(IF v.v THEN 2 ELSE 0))
  ELSE IF v.k = "str"
       THEN IF v.s # <<>> /\ \A i \in 1..Len(v.s) : IsDigitChar(v.s[i])
            THEN Ok(PyFloat(2 * DecimalVal(v.s)))
            ELSE ValueError("Input should be a valid number, unable to parse string as a number", <<>>)
  ELSE ValueError("Input should be a valid number", <<>>)

\* CalculationType field: a string equal to one of the enum values
enum_field(v) ==
  IF v.k = "str" /\ v.s \in CalculationType THEN Ok(v)
  ELSE ValueError("Input should be 'addition', 'subtraction', 'multiplication' or 'division'", <<>>)

HexChars == {"0", "1", "2", "3", "4", "5", "6", "7", "8", "9",
             "a", "b", "c", "d", "e", "f"}

DashAt == {9, 14, 19, 24}

\* UUID field: a UUID instance, or text in the 8-4-4-4-12 form
uuid_field(v) ==
  IF v.k = "uuid" THEN Ok(v)
  ELSE IF v.k = "str" /\ Len(v.s) = 36
          /\ \A i \in 1..36 : IF i \in DashAt THEN v.s[i] = "-"
                                ELSE v.s[i] \in HexChars
       THEN Ok(PyUUID(SelectSeq(v.s, LAMBDA c : c # "-")))
       ELSE ValueError("Input should be a valid UUID", <<>>)

\* datetime field: a datetime instance
datetime_field(v) ==
  IF v.k = "datetime" THEN Ok(v)
  ELSE ValueError("Input should be a valid datetime", <<>>)

\* Optional[T]: None is kept, anything else is validated as T
Optional(v, r) == IF v.k = "none" THEN Ok(v) ELSE r

\* a required field: "Field required" when the key is absent, otherwise the
\* mode="before" validator and then the validation of the declared type
Required(v, before, typed) ==
  IF v.k = "missing" THEN ValueError("Field required", <<>>)
  ELSE IF before.r # "ok" THEN before
  ELSE typed

\* a field with default None
Defaulted(v, typed) == IF v.k = "missing" THEN Ok(PyNone) ELSE typed

(***************************************************************************)
(* Assembling a model: every field is validated, the errors are collected; *)
(* an exception other than ValueError ends the validation at once; the     *)
(* mode="after" validator runs only when no field has an error.            *)
(***************************************************************************)
FieldErrors(rs) ==
  {ErrArgs(f, rs[f].msg, rs[f].args) : f \in {g \in DOMAIN rs : rs[g].r = "ValueError"}}

FieldValues(rs) == [f \in DOMAIN rs |-> rs[f].v]

\* the fields of a model, validated
Collect(rs) ==
  IF \E f \in DOMAIN rs : rs[f].r = "TypeError" THEN [status |-> "TypeError"]
  ELSE IF FieldErrors(rs) # {}
       THEN [status |-> "invalid", errors |-> FieldErrors(rs)]
       ELSE [status |-> "valid", value |-> FieldValues(rs)]

\* the outcome of a model validator, m, as the outcome of the model
Conclude(m) ==
  IF m.r = "TypeError" THEN [status |-> "TypeError"]
  ELSE IF m.r = "ValueError"
       THEN [status |-> "invalid", errors |-> {ErrArgs("model", m.msg, m.args)}]
       ELSE [status |-> "valid", value |-> m.v]

\* float == 0
IsZero(x) == x.k = "float" /\ x.h = 0

\* validate_operands testing the dividend instead of the divisor
CalculationBase_validate_operands_on_a(self) ==
  IF self.type.s = DIVISION /\ IsZero(self.a)
  THEN ValueError("Cannot divide by zero", <<>>)
  ELSE Ok(self)

\* CalculationBase.validate_operands (mode="after")
CalculationBase_validate_operands(self) ==
  IF self.type.s = DIVISION /\ IsZero(self.b)
  THEN ValueError("Cannot divide by zero", <<>>)
  ELSE Ok(self)

\* the fields a, b, type of CalculationBase
BaseField_a(p) ==
  LET before == validate_operand_exists_and_float(p.a)
  IN Required(p.a, before, IF before.r = "ok" THEN float_field(before.v) ELSE before)

BaseField_b(p) ==
  LET before == validate_operand_exists_and_float(p.b)
  IN Required(p.b, before, IF before.r = "ok" THEN float_field(before.v) ELSE before)

BaseField_type(p) ==
  LET before == validate_type(p.type)
  IN Required(p.type, before, IF before.r = "ok" THEN enum_field(before.v) ELSE before)

BaseFields(p) ==
  [a |-> BaseField_a(p), b |-> BaseField_b(p), type |-> BaseField_type(p)]

\* CalculationBase(**p)
CalculationBase(p) ==
  LET c == Collect(BaseFields(p))
  IN IF c.status # "valid" THEN c
     ELSE Conclude(CalculationBase_validate_operands(c.value))

\* CalculationCreate(**p): the base fields and user_id
CalculationCreate(p) ==
  LET c == Collect([a |-> BaseField_a(p), b |-> BaseField_b(p), type |-> BaseField_type(p),
            user_id |-> Required(p.user_id, Ok(p.user_id), uuid_field(p.user_id))])
  IN IF c.status # "valid" THEN c
     ELSE Conclude(CalculationBase_validate_operands(c.value))

\* CalculationRead(**p): the base fields and the server-assigned ones
CalculationRead(p) ==
  LET c == Collect([a |-> BaseField_a(p), b |-> BaseField_b(p), type |-> BaseField_type(p),
            id |-> Required(p.id, Ok(p.id), uuid_field(p.id)),
            user_id |-> Required(p.user_id, Ok(p.user_id), uuid_field(p.user_id)),
            result |-> Required(p.result, Ok(p.result), float_field(p.result)),
            created_at |-> Required(p.created_at, Ok(p.created_at), datetime_field(p.created_at)),
            updated_at |-> Required(p.updated_at, Ok(p.updated_at), datetime_field(p.updated_at))])
  IN IF c.status # "valid" THEN c
     ELSE Conclude(CalculationBase_validate_operands(c.value))

\* validate_operands requiring only one of the two operands
CalculationUpdate_validate_operands_either(self) ==
  IF self.a.k = "none" /\ self.b.k = "none"
  THEN ValueError("Both operands 'a' and 'b' must be provided for update", <<>>)
  ELSE IF self.type.k = "str" /\ self.type.s = DIVISION /\ IsZero(self.b)
       THEN ValueError("Cannot divide by zero", <<>>)
       ELSE Ok(self)

\* validate_operands rejecting a zero divisor whatever the type
CalculationUpdate_validate_operands_any_type(self) ==
  IF self.a.k = "none" \/ self.b.k = "none"
  THEN ValueError("Both operands 'a' and 'b' must be provided for update", <<>>)
  ELSE IF IsZero(self.b)
       THEN ValueError("Cannot divide by zero", <<>>)
       ELSE Ok(self)

\* CalculationUpdate.validate_operands (mode="after")
CalculationUpdate_validate_operands(self) ==
  IF self.a.k = "none" \/ self.b.k = "none"
  THEN ValueError("Both operands 'a' and 'b' must be provided for update", <<>>)
  ELSE IF self.type.k = "str" /\ self.type.s = DIVISION /\ IsZero(self.b)
       THEN ValueError("Cannot divide by zero", <<>>)
       ELSE Ok(self)

\* CalculationUpdate(**p): a, b, type are Optional with default None
CalculationUpdate(p) ==
  LET c == Collect([a |-> Defaulted(p.a, Optional(p.a, float_field(p.a))),
            b |-> Defaulted(p.b, Optional(p.b, float_field(p.b))),
            type |-> Defaulted(p.type, Optional(p.type, enum_field(p.type)))])
  IN IF c.status # "valid" THEN c
     ELSE Conclude(CalculationUpdate_validate_operands(c.value))

(***************************************************************************)
(* Text of names, usernames, e-mail addresses and passwords is kept        *)
(* run-length encoded: <<[c |-> " ", n |-> 1], [c |-> "a", n |-> 50]>> is  *)
(* a blank followed by fifty a's.                                          *)
(***************************************************************************)
Run(c, n) == [c |-> c, n |-> n]

RECURSIVE RLen(_)
\* len(v)
RLen(rs) == IF rs = <<>> THEN 0 ELSE Head(rs).n + RLen(Tail(rs))

IsSpaceChar(c) == c = " "

UpperChars == {UpperAlpha[i] : i \in 1..26}

LowerChars == {LowerAlpha[i] : i \in 1..26}

DigitChars == {"0", "1", "2", "3", "4", "5", "6", "7", "8", "9"}

RECURSIVE LStrip(_)
LStrip(rs) ==
  IF rs # <<>> /\ IsSpaceChar(Head(rs).c) THEN LStrip(Tail(rs)) ELSE rs

RECURSIVE RStrip(_)
RStrip(rs) ==
  IF rs # <<>> /\ IsSpaceChar(rs[Len(rs)].c)
  THEN RStrip(SubSeq(rs, 1, Len(rs) - 1)) ELSE rs

\* v.strip()
Strip(rs) == RStrip(LStrip(rs))

\* re.match("^[...]+$", v) for a character class given as a set
MatchAll(rs, class) == rs # <<>> /\ \A i \in 1..Len(rs) : rs[i].c \in class

\* re.match("^[...]", v)
MatchFirst(rs, class) == rs # <<>> /\ rs[1].c \in class

\* [a-zA-Z\s\-']
NameChar == LowerChars \cup UpperChars \cup {" ", "-", "'"}

\* [a-zA-Z0-9_-]
UsernameChar == LowerChars \cup UpperChars \cup DigitChars \cup {"_", "-"}

\* [a-zA-Z0-9]
AlnumChar == LowerChars \cup UpperChars \cup DigitChars

(***************************************************************************)
(* UserBase                                                                *)
(***************************************************************************)
\* Field(min_length=1, max_length=50) of first_name and last_name
NameMinLength == 1

NameMaxLength == 50

\* Field(min_length=3, max_length=50) of username
UsernameMinLength == 3

UsernameMaxLength == 50

\* Field(min_length=6, max_length=128) of password
PasswordMinLength == 6

PasswordMaxLength == 128

\* str field with length constraints, checked on the value as received
str_field(v, min_length, max_length) ==
  IF v.k # "str" THEN ValueError("Input should be a valid string", <<>>)
  ELSE IF RLen(v.s) < min_length
       THEN ValueError("String should have at least n characters", <<min_length>>)
  ELSE IF RLen(v.s) > max_length
       THEN ValueError("String should have at most n characters", <<max_length>>)
  ELSE Ok(v)

\* UserBase.validate_name
validate_name(v) ==
  IF RLen(v.s) = 0 \/ RLen(Strip(v.s)) = 0
  THEN ValueError("Name cannot be empty or whitespace only", <<>>)
  ELSE IF ~MatchAll(Strip(v.s), NameChar)
       THEN ValueError("Name can only contain letters, spaces, hyphens, and apostrophes", <<>>)
       ELSE Ok(PyStr(Strip(v.s)))

\* UserBase.validate_username
validate_username(v) ==
  IF RLen(v.s) = 0 \/ RLen(Strip(v.s)) = 0
  THEN ValueError("Username cannot be empty or whitespace only", <<>>)
  ELSE IF ~MatchAll(Strip(v.s), UsernameChar)
       THEN ValueError("Username can only contain letters, numbers, underscores, and hyphens", <<>>)
  ELSE IF ~MatchFirst(Strip(v.s), AlnumChar)
       THEN ValueError("Username must start with a letter or number", <<>>)
       ELSE Ok(PyStr(Strip(v.s)))

\* first_name and last_name of UserBase: the field validator (mode="after")
\* runs on the value the typed validation returns
name_field(v) ==
  LET typed == str_field(v, NameMinLength, NameMaxLength)
  IN Required(v, Ok(v), IF typed.r = "ok" THEN validate_name(typed.v) ELSE typed)

\* username of UserBase
username_field(v) ==
  LET typed == str_field(v, UsernameMinLength, UsernameMaxLength)
  IN Required(v, Ok(v), IF typed.r = "ok" THEN validate_username(typed.v) ELSE typed)

\* EmailStr: one "@" between a local part and a dotted domain
email_field(v) ==
  Required(v, Ok(v),
    IF v.k = "str" /\ Len(v.s) = 5
       /\ v.s[2] = Run("@", 1) /\ v.s[4] = Run(".", 1)
       /\ \A i \in {1, 3, 5} : v.s[i].c \in LowerChars \cup UpperChars
    THEN Ok(v)
    ELSE ValueError("value is not a valid email address", <<>>))

UserBaseFields(p) ==
  [first_name |-> name_field(p.first_name), last_name |-> name_field(p.last_name),
   email |-> email_field(p.email), username |-> username_field(p.username)]

\* UserBase(**p)
UserBase(p) == Collect(UserBaseFields(p))

(***************************************************************************)
(* PasswordMixin, UserCreate, UserLogin                                    *)
(***************************************************************************)
\* any(char in class for char in password)
AnyChar(rs, class) == \E i \in 1..Len(rs) : rs[i].c \in class

\* ValidationError("Password is required", model=cls): pydantic's
\* ValidationError has no such constructor, the call itself raises TypeError
ValidationErrorCall == TypeError

\* PasswordMixin.validate_password (mode="before", on the raw payload)
validate_password(values) ==
  LET password == IF values.password.k = "missing" THEN PyNone ELSE values.password
  IN IF password.k = "none" \/ (password.k = "str" /\ RLen(password.s) = 0)
     THEN ValidationErrorCall
     ELSE IF RLen(password.s) < 6
          THEN ValueError("Password must be at least 6 characters long", <<>>)
     ELSE IF ~AnyChar(password.s, UpperChars)
          THEN ValueError("Password must contain at least one uppercase letter", <<>>)
     ELSE IF ~AnyChar(password.s, LowerChars)
          THEN ValueError("Password must contain at least one lowercase letter", <<>>)
     ELSE IF ~AnyChar(password.s, DigitChars)
          THEN ValueError("Password must contain at least one digit", <<>>)
     ELSE Ok(values)

password_field(v) ==
  Required(v, Ok(v), str_field(v, PasswordMinLength, PasswordMaxLength))

\* UserCreate(**p): the mode="before" model validator, then the fields
UserCreate(p) ==
  LET pre == validate_password(p)
  IN IF pre.r # "ok" THEN Conclude(pre)
     ELSE Collect([first_name |-> name_field(p.first_name),
                   last_name |-> name_field(p.last_name),
                   email |-> email_field(p.email),
                   username |-> username_field(p.username),
                   password |-> password_field(p.password)])

\* UserLogin(**p)
UserLogin(p) ==
  LET pre == validate_password(p)
  IN IF pre.r # "ok" THEN Conclude(pre)
     ELSE Collect([username |-> Required(p.username, Ok(p.username),
                                         str_field(p.username, 3, 50)),
                   password |-> password_field(p.password)])

(***************************************************************************)
(* UserRead: the input is a mapping or, with from_attributes, a            *)
(* record whose attributes are read; either way only the declared fields   *)
(* are looked up, a key or attribute that is not declared is ignored.      *)
(***************************************************************************)
\* bool field: a bool, or the integers 0 and 1
bool_field(v) ==
  IF v.k = "bool" THEN Ok(v)
  ELSE IF v.k = "int" /\ v.v \in {0, 1} THEN Ok(PyBool(v.v = 1))
  ELSE ValueError("Input should be a valid boolean", <<>>)

\* the fields of r1 and of r2
Merge(r1, r2) ==
  [f \in DOMAIN r1 \cup DOMAIN r2 |-> IF f \in DOMAIN r1 THEN r1[f] ELSE r2[f]]

\* the fields UserRead declares itself
UserReadOwnFields(p) ==
  [id |-> Required(p.id, Ok(p.id), uuid_field(p.id)),
   is_active |-> Required(p.is_active, Ok(p.is_active), bool_field(p.is_active)),
   is_verified |-> Required(p.is_verified, Ok(p.is_verified), bool_field(p.is_verified)),
   last_login |-> Defaulted(p.last_login,
                            Optional(p.last_login, datetime_field(p.last_login))),
   created_at |-> Required(p.created_at, Ok(p.created_at), datetime_field(p.created_at)),
   updated_at |-> Required(p.updated_at, Ok(p.updated_at), datetime_field(p.updated_at))]

\* UserRead deriving from PasswordMixin as well
UserReadFields_with_password(p) ==
  Merge(Merge(UserBaseFields(p), UserReadOwnFields(p)),
        [password |-> password_field(p.password)])

\* the fields of UserRead: those of UserBase and its own
UserReadFields(p) == Merge(UserBaseFields(p), UserReadOwnFields(p))

\* UserRead(**data) and UserRead.model_validate(record)
UserRead(p) == Collect(UserReadFields(p))

(***************************************************************************)
(* Inputs                                                                  *)
(***************************************************************************)
\* w with the letters at the positions U in upper case
WithUpper(w, U) == [i \in 1..Len(w) |-> IF i \in U THEN UpperChar(w[i]) ELSE w[i]]

\* mixed-case spellings of w: any of the first CasePos letters, or all letters
CaseVariants(w) ==
  {WithUpper(w, U) : U \in SUBSET (1..CasePos)} \cup {WithUpper(w, 1..Len(w))}

MODULUS == <<"m", "o", "d", "u", "l", "u", "s">>

DIVIDE == <<"d", "i", "v", "i", "d", "e">>

TypeTexts ==
  UNION {CaseVariants(w) : w \in CalculationType}
    \cup {MODULUS, WithUpper(MODULUS, {1}), DIVIDE, <<>>}

TypeInputs == {PyStr(s) : s \in TypeTexts} \cup {PyNone, PyInt(1), PyList, Missing}

OperandInputs ==
  {Missing, PyNone, PyList, PyBool(FALSE),
   PyInt(0), PyInt(2), PyFloat(0), PyFloat(5),
   PyStr(<<"x">>), PyStr(<<"5">>), PyStr(<<"0">>)}

\* str(uuid) of a UUID whose last hex digit is d and whose other digits are 0
UuidText(d) == [i \in 1..36 |-> IF i \in DashAt THEN "-" ELSE IF i = 36 THEN d ELSE "0"]

UuidInputs == {Missing, PyStr(UuidText("7")), PyStr(<<"n", "o">>)}

\* the server-assigned fields of a stored calculation, and two broken variants
ServerFields ==
  LET ok == [id |-> PyStr(UuidText("9")), result |-> PyFloat(4),
             created_at |-> PyDatetime(1), updated_at |-> PyDatetime(2)]
  IN {ok, [ok EXCEPT !.result = Missing], [ok EXCEPT !.created_at = PyNone]}

\* what the persistence layer assigns to a stored calculation
AssignedFields ==
  {[id |-> i, result |-> r, created_at |-> PyDatetime(1), updated_at |-> PyDatetime(2)] :
     i \in {PyStr(UuidText("9")), PyUUID(SelectSeq(UuidText("9"), LAMBDA c : c # "-"))},
     r \in {PyFloat(4), PyInt(0)}}

NoServerFields ==
  [id |-> Missing, result |-> Missing, created_at |-> Missing, updated_at |-> Missing]

Payload(a, b, type, user_id, srv) ==
  [a |-> a, b |-> b, type |-> type, user_id |-> user_id, id |-> srv.id,
   result |-> srv.result, created_at |-> srv.created_at, updated_at |-> srv.updated_at]

\* texts of at most MaxRuns runs
RunTexts(chars, lens) ==
  UNION {[1..n -> {Run(c, l) : c \in chars, l \in lens}] : n \in 0..MaxRuns}

NameTexts == RunTexts({" ", "a", "-", "'", "1"}, {1, NameMaxLength})

UsernameTexts == RunTexts({" ", "a", "1", "_", "-", "!"}, {1, UsernameMaxLength})

PasswordTexts == RunTexts({"A", "a", "1", "!"}, {1, 4, PasswordMaxLength})

PasswordInputs == {PyStr(s) : s \in PasswordTexts} \cup {Missing, PyNone}

\* "aaaa", "a@a.a", "aaaa", "Aaaaa1"
ValidUser ==
  [first_name |-> PyStr(<<Run("a", 4)>>), last_name |-> PyStr(<<Run("a", 4)>>),
   email |-> PyStr(<<Run("a", 1), Run("@", 1), Run("a", 1), Run(".", 1), Run("a", 1)>>),
   username |-> PyStr(<<Run("a", 4)>>), password |-> Missing]

ValidPassword == PyStr(<<Run("A", 1), Run("a", 4), Run("1", 1)>>)

UserPayloads ==
  {[ValidUser EXCEPT ![f] = PyStr(s)] : f \in {"first_name", "last_name"}, s \in NameTexts}
    \cup {[ValidUser EXCEPT !.username = PyStr(s)] : s \in UsernameTexts}
    \cup {[ValidUser EXCEPT !.email = e] : e \in {Missing, PyStr(<<Run("a", 1)>>)}}
    \cup {[ValidUser EXCEPT !.password = ValidPassword]}

UserCreatePayloads ==
  {[ValidUser EXCEPT !.password = w] : w \in PasswordInputs}
    \cup {[ValidUser EXCEPT !.password = ValidPassword, !.username = PyStr(<<Run("a", 2)>>)]}

UserLoginPayloads ==
  {[username |-> ValidUser.username, password |-> w] : w \in PasswordInputs}
    \cup {[username |-> PyStr(<<Run("a", 2)>>), password |-> ValidPassword]}

\* a stored user: the fields the server assigns, and broken variants
UserServerFields ==
  LET ok == [id |-> PyUUID(SelectSeq(UuidText("3"), LAMBDA c : c # "-")),
             is_active |-> PyBool(TRUE), is_verified |-> PyBool(FALSE),
             last_login |-> PyDatetime(3), created_at |-> PyDatetime(1),
             updated_at |-> PyDatetime(2)]
  IN {ok, [ok EXCEPT !.last_login = Missing], [ok EXCEPT !.last_login = PyNone],
      [ok EXCEPT !.is_active = PyInt(1)], [ok EXCEPT !.is_verified = PyList],
      [ok EXCEPT !.id = Missing], [ok EXCEPT !.id = PyStr(UuidText("3"))]}

\* the password a read input may carry: none, a clear one, a short one
CarriedPasswords == {Missing, PyNone, ValidPassword, PyStr(<<Run("a", 1)>>)}

UserReadPayloads ==
  {Merge(Merge([u EXCEPT !.password = w], srv), [form |-> form]) :
     u \in {ValidUser, [ValidUser EXCEPT !.username = PyStr(<<Run("a", 1)>>)],
            [ValidUser EXCEPT !.first_name = PyStr(<<Run(" ", 1), Run("a", 1)>>)]},
     w \in CarriedPasswords, srv \in UserServerFields,
     form \in {"mapping", "attributes"}}

(***************************************************************************)
(* Requests                                                                *)
(***************************************************************************)
Init ==
  /\ pc = "idle"
  /\ schema = "none"
  /\ payload = [k |-> "none"]
  /\ outcome = [status |-> "none"]
  /\ created = [k |-> "none"]

Finish(name, p, result) ==
  /\ pc' = "done"
  /\ schema' = name
  /\ payload' = p
  /\ outcome' = result
  /\ created' = [k |-> "none"]

ValidateCalculationBase ==
  /\ pc = "idle"
  /\ \E a \in OperandInputs, b \in OperandInputs, type \in TypeInputs :
       LET p == Payload(a, b, type, Missing, NoServerFields)
       IN Finish("CalculationBase", p, CalculationBase(p))

ValidateCalculationCreate ==
  /\ pc = "idle"
  /\ \E a \in OperandInputs, b \in OperandInputs, type \in TypeInputs, u \in UuidInputs :
       LET p == Payload(a, b, type, u, NoServerFields)
       IN Finish("CalculationCreate", p, CalculationCreate(p))

ValidateCalculationRead ==
  /\ pc = "idle"
  /\ \E a \in OperandInputs, b \in OperandInputs, type \in TypeInputs, srv \in ServerFields :
       LET p == Payload(a, b, type, PyStr(UuidText("7")), srv)
       IN Finish("CalculationRead", p, CalculationRead(p))

ValidateCalculationUpdate ==
  /\ pc = "idle"
  /\ \E a \in OperandInputs, b \in OperandInputs, type \in TypeInputs :
       LET p == Payload(a, b, type, Missing, NoServerFields)
       IN Finish("CalculationUpdate", p, CalculationUpdate(p))

\* one payload that supplies a, b and type, given to CalculationUpdate and to
\* CalculationBase
ValidateUpdateAndBase ==
  /\ pc = "idle"
  /\ \E a \in OperandInputs \ {Missing, PyNone}, b \in OperandInputs \ {Missing, PyNone},
        type \in TypeInputs \ {Missing, PyNone} :
       LET p == Payload(a, b, type, Missing, NoServerFields)
       IN Finish("UpdateAndBase", p,
                 [status |-> "both", update |-> CalculationUpdate(p),
                  base |-> CalculationBase(p)])

ValidateUserBase ==
  /\ pc = "idle"
  /\ \E p \in UserPayloads : Finish("UserBase", p, UserBase(p))

ValidateUserRead ==
  /\ pc = "idle"
  /\ \E p \in UserReadPayloads : Finish("UserRead", p, UserRead(p))

ValidateUserCreate ==
  /\ pc = "idle"
  /\ \E p \in UserCreatePayloads : Finish("UserCreate", p, UserCreate(p))

ValidateUserLogin ==
  /\ pc = "idle"
  /\ \E p \in UserLoginPayloads : Finish("UserLogin", p, UserLogin(p))

\* the persistence layer stores a validated Create structure, assigns id,
\* result and the timestamps, and the stored record is shaped by CalculationRead
ReadBack ==
  /\ pc = "done"
  /\ schema = "CalculationCreate"
  /\ outcome.status = "valid"
  /\ \E srv \in AssignedFields :
       LET v == outcome.value
           p == Payload(v.a, v.b, v.type, v.user_id, srv)
       IN /\ pc' = "done"
          /\ schema' = "CalculationRead"
          /\ payload' = p
          /\ outcome' = CalculationRead(p)
          /\ created' = [k |-> "create", v |-> v]

\* the structure is handed on and dropped
Discard ==
  /\ pc = "done"
  /\ pc' = "idle"
  /\ schema' = "none"
  /\ payload' = [k |-> "none"]
  /\ outcome' = [status |-> "none"]
  /\ created' = [k |-> "none"]

Next ==
  \/ ValidateCalculationBase
  \/ ValidateCalculationCreate
  \/ ValidateCalculationRead
  \/ ValidateCalculationUpdate
  \/ ValidateUpdateAndBase
  \/ ValidateUserBase
  \/ ValidateUserRead
  \/ ValidateUserCreate
  \/ ValidateUserLogin
  \/ ReadBack
  \/ Discard

Spec == Init /\ [][Next]_vars

(***************************************************************************)
(* Properties                                                              *)
(***************************************************************************)
Done(name) == pc = "done" /\ schema = name

BaseSchemas == {"CalculationBase", "CalculationCreate", "CalculationRead"}

\* an integer or a float
IsNumber(v) == v.k \in {"int", "float"}

\* the number v, in halves
Halves(v) == IF v.k = "int" THEN 2 * v.v ELSE v.h

\* v == 0 for an integer 0 or a float 0.0
EqualsZero(v) == IsNumber(v) /\ Halves(v) = 0

\* the text s spells w in some mix of upper and lower case
SpellsIgnoringCase(s, w) ==
  /\ Len(s) = Len(w)
  /\ \A i \in 1..Len(w) : s[i] = w[i] \/ s[i] = UpperChar(w[i])

IsTypeText(v, w) == v.k = "str" /\ SpellsIgnoringCase(v.s, w)

\* the fields a subclass adds to a, b and type are present and well formed
OwnFieldsValid ==
  /\ schema \in {"CalculationCreate", "CalculationRead"}
       => payload.user_id = PyStr(UuidText("7"))
  /\ schema = "CalculationRead"
       => /\ payload.id = PyStr(UuidText("9"))
          /\ payload.result.k = "float"
          /\ payload.created_at.k = "datetime"
          /\ payload.updated_at.k = "datetime"

DivideByZeroError == Err("model", "Cannot divide by zero")

\* C1: for CalculationBase, CalculationCreate and CalculationRead, a payload
\* whose type is division and whose b is 0 (integer 0 or float 0.0) is
\* rejected whatever a is, and the error is 'Cannot divide by zero' for every
\* number a (the other fields being well formed, so that the payload reaches
\* the cross-field rule).
C1_DivisionByZeroRejected ==
  (pc = "done" /\ schema \in BaseSchemas
     /\ IsTypeText(payload.type, DIVISION) /\ EqualsZero(payload.b))
  => /\ outcome.status = "invalid"
     /\ (IsNumber(payload.a) /\ OwnFieldsValid)
          => outcome.errors = {DivideByZeroError}

C1_Witness ==
  /\ Done("CalculationRead")
  /\ payload.type = PyStr(DIVISION)
  /\ payload.a = PyInt(0)
  /\ payload.b = PyFloat(0)
  /\ OwnFieldsValid
  /\ outcome = [status |-> "invalid", errors |-> {DivideByZeroError}]

\* C2: a CalculationBase payload whose a and b are integers or floats and
\* whose type is one of the four allowed types, other than division with
\* b == 0, is accepted, and the structure holds a and b as floats of the same
\* numeric value and the type as its lowercase enum value.
C2_ValidPayloadAccepted ==
  \A w \in {ADDITION, SUBTRACTION, MULTIPLICATION, DIVISION} :
    (Done("CalculationBase")
       /\ IsNumber(payload.a) /\ IsNumber(payload.b) /\ IsTypeText(payload.type, w)
       /\ ~(w = DIVISION /\ EqualsZero(payload.b)))
    => /\ outcome.status = "valid"
       /\ outcome.value.a = PyFloat(Halves(payload.a))
       /\ outcome.value.b = PyFloat(Halves(payload.b))
       /\ outcome.value.type = PyStr(w)

C2_Witness ==
  /\ Done("CalculationBase")
  /\ payload.type = PyStr(DIVISION)
  /\ payload.a = PyInt(2)
  /\ payload.b = PyFloat(5)
  /\ outcome.status = "valid"
  /\ outcome.value.a = PyFloat(4)
  /\ outcome.value.b = PyFloat(5)

\* C3: for CalculationBase, a type text that spells an allowed enum value in
\* any mix of upper and lower case is accepted (the type field has no error),
\* and a validated structure holds the lowercase enum value.
C3_TypeCaseInsensitive ==
  \A w \in {ADDITION, SUBTRACTION, MULTIPLICATION, DIVISION} :
    (Done("CalculationBase") /\ IsTypeText(payload.type, w))
    => /\ outcome.status \in {"valid", "invalid"}
       /\ outcome.status = "invalid" => \A e \in outcome.errors : e.loc # "type"
       /\ outcome.status = "valid" => outcome.value.type = PyStr(w)
       /\ (IsNumber(payload.a) /\ IsNumber(payload.b) /\ w # DIVISION)
            => outcome.status = "valid"

C3_Witness ==
  /\ Done("CalculationBase")
  /\ payload.type = PyStr(<<"M", "u", "L", "t", "i", "p", "l", "i", "c", "a", "t", "i", "o", "n">>)
  /\ outcome.status = "valid"
  /\ outcome.value.type = PyStr(MULTIPLICATION)

\* C4: for CalculationBase, every type value that after lower-casing is not
\* one of the four enum values, text or not, is rejected with the message
\* 'Type must be one of: addition, division, multiplication, subtraction'.
C4_InvalidTypeRejected ==
  (Done("CalculationBase") /\ payload.type.k # "missing"
     /\ \A w \in {ADDITION, SUBTRACTION, MULTIPLICATION, DIVISION} :
          ~IsTypeText(payload.type, w))
  => /\ outcome.status = "invalid"
     /\ ErrArgs("type", "Type must be one of",
                <<ADDITION, DIVISION, MULTIPLICATION, SUBTRACTION>>) \in outcome.errors

\* the operand at field f of a CalculationBase payload is handled as C5 says
OperandHandled(f) ==
  LET v == payload[f]
  IN /\ v.k = "none"
          => /\ outcome.status = "invalid"
             /\ Err(f, "Both operands 'a' and 'b' must be provided") \in outcome.errors
     /\ v.k \in {"str", "list"}
          => /\ outcome.status = "invalid"
             /\ Err(f, "Input should be a valid float") \in outcome.errors
     /\ IsNumber(v)
          => /\ outcome.status \in {"valid", "invalid"}
             /\ outcome.status = "invalid" => \A e \in outcome.errors : e.loc # f
             /\ outcome.status = "valid" => outcome.value[f] = PyFloat(Halves(v))

\* C5: for CalculationBase, a null operand is rejected with 'Both operands
\* ... must be provided', an operand that is not an integer or a float (text
\* included) with 'Input should be a valid float', and an integer or float
\* operand is accepted and stored as a float.
C5_OperandValidation ==
  Done("CalculationBase") => OperandHandled("a") /\ OperandHandled("b")

C7_UpdateDivisionByZero ==
  Done("CalculationUpdate")
  => /\ (payload.type = PyStr(DIVISION) /\ EqualsZero(payload.b))
          => /\ outcome.status = "invalid"
             /\ IsNumber(payload.a) => outcome.errors = {DivideByZeroError}
     /\ (payload.type.k = "missing" /\ EqualsZero(payload.b) /\ IsNumber(payload.a))
          => outcome.status = "valid"

C7_Witness ==
  /\ Done("CalculationUpdate")
  /\ payload.type = PyStr(DIVISION)
  /\ payload.a = PyFloat(5)
  /\ payload.b = PyInt(0)
  /\ outcome = [status |-> "invalid", errors |-> {DivideByZeroError}]

\* the username rules: 3 to 50 characters of [a-zA-Z0-9_-], the first one a
\* letter or a digit
UsernameRules(u) ==
  /\ RLen(u) >= 3
  /\ RLen(u) <= 50
  /\ MatchAll(u, UsernameChar)
  /\ MatchFirst(u, AlnumChar)

\* C8: a username that UserBase accepts is returned trimmed, and the returned
\* value has 3 to 50 characters of [a-zA-Z0-9_-] and starts with a letter or
\* a digit; a username that breaks one of these rules is rejected.
C8_UsernameRules ==
  (Done("UserBase") /\ payload.username.k = "str")
  => /\ outcome.status = "valid"
          => /\ outcome.value.username = PyStr(Strip(payload.username.s))
             /\ UsernameRules(outcome.value.username.s)
     /\ ~UsernameRules(Strip(payload.username.s)) => outcome.status = "invalid"

\* the name rules: 1 to 50 letters, spaces, hyphens or apostrophes
NameRules(u) ==
  /\ RLen(u) >= 1
  /\ RLen(u) <= 50
  /\ MatchAll(u, NameChar)

\* C9: first_name and last_name are accepted exactly when the trimmed form
\* has 1 to 50 characters, all letters, spaces, hyphens or apostrophes, and
\* the returned value is the trimmed text.
C9_NameRulesAfterTrimming ==
  \A f \in {"first_name", "last_name"} :
    (Done("UserBase") /\ payload[f].k = "str")
    => LET accepted == \/ outcome.status = "valid"
                       \/ /\ outcome.status = "invalid"
                          /\ \A e \in outcome.errors : e.loc # f
       IN /\ accepted <=> NameRules(Strip(payload[f].s))
          /\ outcome.status = "valid" => outcome.value[f] = PyStr(Strip(payload[f].s))

\* the first password rule that w breaks, in the order required, length,
\* uppercase, lowercase, digit
FirstBrokenRule(w) ==
  IF w.k \in {"missing", "none"} \/ RLen(w.s) = 0 THEN "Password is required"
  ELSE IF RLen(w.s) < 6 THEN "Password must be at least 6 characters long"
  ELSE IF \A i \in 1..Len(w.s) : ~IsUpperChar(w.s[i].c)
       THEN "Password must contain at least one uppercase letter"
  ELSE IF \A i \in 1..Len(w.s) : ~IsLowerChar(w.s[i].c)
       THEN "Password must contain at least one lowercase letter"
  ELSE IF \A i \in 1..Len(w.s) : ~IsDigitChar(w.s[i].c)
       THEN "Password must contain at least one digit"
  ELSE "none"

\* C10: for UserCreate and UserLogin, a password that breaks a rule is
\* rejected with the validation error of the first rule it breaks, in the
\* order required, length >= 6, uppercase, lowercase, digit; a missing, null
\* or empty password is rejected as required.
C10_FirstBrokenPasswordRule ==
  (pc = "done" /\ schema \in {"UserCreate", "UserLogin"}
     /\ FirstBrokenRule(payload.password) # "none")
  => /\ outcome.status = "invalid"
     /\ outcome.errors = {Err("model", FirstBrokenRule(payload.password))}

\* C11: the password never appears in read-form output: a validated UserRead
\* structure has no password field, whether the input is a mapping or a
\* record read by attributes, and whether or not it carries a password.
C11_NoPasswordInUserRead ==
  (Done("UserRead") /\ outcome.status = "valid")
  => "password" \notin DOMAIN outcome.value

C11_Witness ==
  /\ Done("UserRead")
  /\ payload.form = "attributes"
  /\ payload.password = ValidPassword
  /\ outcome.status = "valid"
  /\ outcome.value.username = PyStr(<<Run("a", 4)>>)

\* C12: round trip: the normalized a, b, type and user_id of an accepted
\* CalculationCreate payload, with the server-assigned id, result, created_at
\* and updated_at added, are accepted by CalculationRead, and the Read
\* structure has the a, b and type of the Create structure.
C12_CreateReadRoundTrip ==
  (Done("CalculationRead") /\ created.k = "create")
  => /\ outcome.status = "valid"
     /\ outcome.value.a = created.v.a
     /\ outcome.value.b = created.v.b
     /\ outcome.value.type = created.v.type

C12_Witness ==
  /\ Done("CalculationRead")
  /\ created.k = "create"
  /\ created.v.type = PyStr(DIVISION)
  /\ created.v.a = PyFloat(4)
  /\ created.v.b = PyFloat(5)
  /\ outcome.status = "valid"
  /\ outcome.value.type = PyStr(DIVISION)

\* the fields of a CalculationBase payload that fail their own validation:
\* an operand that is absent, null or not a number, a type that is absent or
\* spells no enum value
BadFields ==
  {f \in {"a", "b"} : payload[f].k \notin {"int", "float", "bool"}}
    \cup {f \in {"type"} :
            \A w \in {ADDITION, SUBTRACTION, MULTIPLICATION, DIVISION} :
              ~IsTypeText(payload.type, w)}

\* C13: in CalculationBase the divide-by-zero rule is evaluated only after
\* a, b and type have all passed their field validation: a payload with a
\* field-level error is rejected with the errors of the failing fields only,
\* never with 'Cannot divide by zero' as well, and no structure is returned.
C13_CrossFieldRuleAfterFields ==
  Done("CalculationBase")
  => /\ (outcome.status = "invalid" /\ DivideByZeroError \in outcome.errors)
          => BadFields = {}
     /\ BadFields # {}
          => /\ outcome.status = "invalid"
             /\ {e.loc : e \in outcome.errors} = BadFields

\* the two schemas agree: one accepts exactly when the other does, and then
\* with the same a, b and type
UpdateAgreesWithBase ==
  /\ outcome.update.status = "valid" <=> outcome.base.status = "valid"
  /\ outcome.update.status = "valid"
       => /\ outcome.update.value.a = outcome.base.value.a
          /\ outcome.update.value.b = outcome.base.value.b
          /\ outcome.update.value.type = outcome.base.value.type

MixedCaseType(v) ==
  \E w \in {ADDITION, SUBTRACTION, MULTIPLICATION, DIVISION} :
    IsTypeText(v, w) /\ v.s # w

\* text that parses as a number
IsNumericText(x) ==
  x.k = "str" /\ x.s # <<>> /\ \A i \in 1..Len(x.s) : x.s[i] \in DigitChars

====
